---- MODULE Spec2Model ----
(***************************************************************************)
(* A model of the mark-and-sweep collector of SimpleGarbageCollector, in   *)
(* its two implementations: src/collector.c ("c") and src/collector.cpp    *)
(* ("cpp").  Memory is a finite pool of addresses; an address holds the    *)
(* fields of an Object whether or not it is currently allocated, so that   *)
(* a stale (dangling) pointer reads what the freed memory last held.       *)
(***************************************************************************)
EXTENDS Integers, Sequences, FiniteSets, TLC

\* ---------------------------------------------------------------- bounds
NumAddrs == 3        \* size of the address pool malloc/new draws from
MaxWild == 1         \* how many garbage "objects" sweep may free past a wild link
Spare == 3           \* objects the large pool holds beyond a full root stack
Burst == 16          \* iterations of a loop that are evaluated in one stretch

\* ------------------------------------------------------ program constants
MAX_STACK == 256
MAX_BARRIER == 8

NULL == 0
WILD == 0 - 1        \* a non-null pointer that addresses no Object
Addr == 1..NumAddrs
Values == {1}        \* Int payloads; no code of the collector reads them
\* The pools a run may have: the small one, on which every operation is
\* explored in every order, and a large one, on which a caller fills the root
\* stack to MAX_STACK and operates at its two ends.
BigAddr == 1..(MAX_STACK + Spare)
Pools == {Addr, BigAddr}
Impls == {"c", "cpp"}

VARIABLES
    impl,        \* which implementation runs: "c" or "cpp"
    status,      \* "running", "exited" (assert failed), "crashed", "freed", "destroyed"
    mem,         \* Addr -> the Object fields stored at that address
    allocated,   \* addresses handed out by malloc/new and not yet freed
    stack,       \* VM.stack[0 .. stackSize-1], as a sequence
    root,        \* VM.root: head of the intrusive list of all objects
    numObjects,  \* VM.numObjects
    maxObjects,  \* VM.maxObjects
    ret,         \* the reference the last operation returned (NULL: none, or it returned nothing)
    cycle,       \* history: what the last operation's collection cycle saw and left
    lastOp,      \* history: the last operation, and for an allocation the counters it started from
    left         \* history: numObjects as the last completed cycle left it, or None

\* A collection cycle run one step of mark at a time (MarkSpec below).
VARIABLES
    phase,       \* "idle"; "mark" (inside markAll), "sweep" (markAll returned), "done"
    idx,         \* markAll's loop variable i
    frames,      \* the call stack of mark: for each call its object and where it stands
    writes       \* history: how often this cycle has set each object's mark bit

\* A test of the source run command by command (TestSpec below).
VARIABLES
    test         \* the test's name, the commands it has still to run, its locals a and b

markVars == <<phase, idx, frames, writes>>

vars == <<impl, status, mem, allocated, stack, root, numObjects, maxObjects,
          ret, cycle, lastOp, left, phase, idx, frames, writes, test>>

\* The fields of an Object (marked, next, type and the union value / head, tail).
Object(t, val, h, tl) ==
    [marked |-> FALSE, next |-> NULL, type |-> t, value |-> val, head |-> h, tail |-> tl]

\* What the model keeps at an address that is not allocated: free() and delete
\* hand the memory back to the allocator, which overwrites it.
Freed == Object("INT", 0, NULL, NULL)

NoCycle == [ran |-> FALSE]
NoTest == [name |-> "", todo |-> <<>>, a |-> NULL, b |-> NULL]
None == 0 - 1

\* The VM and the memory it manages, as one value the operations transform.
Cur ==
    [impl |-> impl, status |-> status, mem |-> mem, allocated |-> allocated,
     stack |-> stack, root |-> root, numObjects |-> numObjects,
     maxObjects |-> maxObjects, ret |-> NULL, cycle |-> NoCycle]

Put(v, op) ==
    /\ UNCHANGED markVars
    /\ lastOp' = IF op \in {"pushInt", "pushPair"}
                 THEN [op |-> op, num |-> numObjects, max |-> maxObjects, left |-> left]
                 ELSE [op |-> op]
    /\ left' = IF v.cycle.ran /\ v.cycle.done THEN v.cycle.num1 ELSE left
    /\ impl' = v.impl
    /\ status' = v.status
    /\ mem' = v.mem
    /\ allocated' = v.allocated
    /\ stack' = v.stack
    /\ root' = v.root
    /\ numObjects' = v.numObjects
    /\ maxObjects' = v.maxObjects
    /\ ret' = v.ret
    /\ cycle' = v.cycle

\* An operation the caller chooses freely: no test is running.
Install(v, op) == Put(v, op) /\ UNCHANGED test

\* exit(1) from a failed assert; a fault on a wild or dangling pointer.
\* Neither returns to its caller.
Exit(v) == [v EXCEPT !.status = "exited", !.ret = NULL]
Crash(v) == [v EXCEPT !.status = "crashed", !.ret = NULL]

\* "return object;" at the end of pushInt, pushPair, VM::push: reached unless
\* the push before it exited.
Result(v, o) == IF v.status = "running" THEN [v EXCEPT !.ret = o] ELSE v

\* ------------------------------------------------------- the object graph
Range(q) == {q[i] : i \in 1..Len(q)}

\* A walk along next of at most n steps, from the pointer p, having passed the
\* objects acc.  It stops at NULL, at a wild pointer and at an object passed
\* before; at is where it stands at last, seen the objects it has passed.
RECURSIVE ListRun(_, _, _, _)
ListRun(m, p, acc, n) ==
    IF n = 0 \/ p = NULL \/ p = WILD \/ p \in acc THEN [at |-> p, seen |-> acc]
    ELSE ListRun(m, m[p].next, acc \cup {p}, n - 1)

\* The whole walk, a stretch of Burst steps after another.
RECURSIVE ListWalk(_, _, _)
ListWalk(m, p, acc) ==
    LET c == ListRun(m, p, acc, Burst)
    IN  IF c.at = NULL \/ c.at = WILD \/ c.at \in c.seen THEN c
        ELSE ListWalk(m, c.at, c.seen)

\* The objects on the intrusive list that starts at p (VM.root), following next.
ListFrom(m, p, acc) == ListWalk(m, p, acc).seen

HeapSet(v) == ListFrom(v.mem, v.root, {})

\* The pointer that ends the list: NULL for a well-formed list.
ListEnd(m, p, acc) == ListWalk(m, p, acc).at

\* The outgoing references of the object at o.
Succ(m, o) == IF m[o].type = "PAIR" THEN {m[o].head, m[o].tail} ELSE {}

\* The objects of H reachable from R through objects of H.
RECURSIVE Closure(_, _, _)
Closure(m, H, R) ==
    LET N == ((UNION {Succ(m, o) : o \in R}) \cap H) \ R
    IN  IF N = {} THEN R ELSE Closure(m, H, R \cup N)

\* The objects reachable from the root stack through objects that exist
\* (allocated memory); a freed address is no object.
Reach(v) == Closure(v.mem, v.allocated, Range(v.stack) \cap v.allocated)

\* ------------------------------------------------------------- root stack
\* push / _push: assert(stackSize < MAX_STACK); stack[stackSize++] = value.
\* Mutant of push: no overflow check.
pushUnchecked(v, o) == [v EXCEPT !.stack = Append(@, o)]

push(v, o) ==
    IF Len(v.stack) < MAX_STACK
    THEN [v EXCEPT !.stack = Append(@, o)]
    ELSE Exit(v)

\* Mutant of pop: the entry removed is the oldest one.
Top(v) == v.stack[Len(v.stack)]
popOldest(v) ==
    IF Len(v.stack) > 0
    THEN [v EXCEPT !.stack = Tail(@), !.ret = Top(v)]
    ELSE Exit(v)

\* pop: assert(stackSize > 0); return stack[--stackSize].  The value popped
\* is Top(v); pop(v) is the VM afterwards, with ret the value returned.
pop(v) ==
    IF Len(v.stack) > 0
    THEN [v EXCEPT !.stack = SubSeq(@, 1, Len(@) - 1), !.ret = Top(v)]
    ELSE Exit(v)

\* ------------------------------------------------------------------- mark
\* Mutant of mark: a pair's tail is not followed.
RECURSIVE markNoTail(_, _)
markNoTail(m, o) ==
    IF m[o].marked THEN m
    ELSE LET m1 == [m EXCEPT ![o].marked = TRUE]
         IN  IF m1[o].type = "PAIR" THEN markNoTail(m1, m1[o].head) ELSE m1

\* mark: return if already marked; set the bit; for a pair, mark head, then tail.
RECURSIVE mark(_, _)
mark(m, o) ==
    IF m[o].marked THEN m
    ELSE LET m1 == [m EXCEPT ![o].marked = TRUE]
         IN  IF m1[o].type = "PAIR"
             THEN mark(mark(m1, m1[o].head), m1[o].tail)
             ELSE m1

\* The iterations i..j of markAll's loop, in order.
RECURSIVE markRun(_, _, _, _)
markRun(m, stk, i, j) ==
    IF i > j THEN m ELSE markRun(mark(m, stk[i]), stk, i + 1, j)

\* markAll / markSpine: for (i = 0; i < stackSize; i++) mark(stack[i]), a
\* stretch of Burst iterations after another; the memory one stretch leaves
\* (no memory is empty) is what the next starts from.
RECURSIVE markFrom(_, _, _)
markFrom(m, stk, i) ==
    IF i > Len(stk) THEN m
    ELSE LET j == IF i + Burst - 1 < Len(stk) THEN i + Burst - 1 ELSE Len(stk)
             m1 == markRun(m, stk, i, j)
         IN  IF DOMAIN m1 = {} THEN m1 ELSE markFrom(m1, stk, j + 1)

\* Mutant of markAll: the roots are popped as they are marked.
markAllPopping(v) == [v EXCEPT !.mem = markFrom(v.mem, v.stack, 1), !.stack = <<>>]

markAll(v) == [v EXCEPT !.mem = markFrom(v.mem, v.stack, 1)]

\* The addresses mark was called on during markAll(v): the roots, and the
\* head and tail of every pair whose bit this pass set.
Visited(v) ==
    LET m1 == markAll(v).mem
    IN  Range(v.stack) \cup
        UNION {Succ(m1, o) : o \in {x \in DOMAIN v.mem : ~v.mem[x].marked /\ m1[x].marked}}

\* mark dereferences memory that has been freed (a dangling head or tail).
MarkReadsFreed(v) == ~(Visited(v) \subseteq v.allocated)

\* ------------------------------------------------------------------ sweep
\* The link "Object** object" designates: &vm->root (loc = NULL) or &loc->next.
Link(v, loc) == IF loc = NULL THEN v.root ELSE v.mem[loc].next
SetLink(v, loc, x) ==
    IF loc = NULL THEN [v EXCEPT !.root = x] ELSE [v EXCEPT !.mem[loc].next = x]

\* What sweep can do when *object is a wild pointer (undefined behaviour): fault;
\* read the garbage as a marked object whose next is NULL, leaving the link;
\* or read it as k unmarked objects, unlinking and "freeing" each and counting
\* numObjects down, with the link left NULL or wild.  The count of such frees
\* is capped: numObjects stays within MaxWild of the list's length.
WildSweep(v, loc) ==
    {Crash(v), v} \cup
    { [SetLink(v, loc, t) EXCEPT !.numObjects = @ - k] :
        k \in {j \in 1..MaxWild :
                 v.numObjects - j >= Cardinality(HeapSet(v)) - MaxWild},
        t \in {NULL, WILD} }

\* Mutant of sweepRun: a marked object keeps its bit.
RECURSIVE sweepRunKeepMark(_, _, _)
sweepRunKeepMark(v, loc, n) ==
    LET cur == Link(v, loc)
    IN  IF n = 0 \/ cur = NULL \/ cur = WILD THEN [vm |-> v, loc |-> loc]
        ELSE IF ~v.mem[cur].marked
        THEN sweepRunKeepMark([SetLink(v, loc, v.mem[cur].next) EXCEPT
                                  !.numObjects = @ - 1,
                                  !.allocated = @ \ {cur},
                                  !.mem[cur] = Freed], loc, n - 1)
        ELSE sweepRunKeepMark(v, cur, n - 1)

\* At most n passes through the body of sweep's loop, from the link loc on: an
\* unmarked object is unlinked, counted out and freed; a marked one has its bit
\* cleared and the walk moves to its next link.  The result is the VM and the
\* link the walk stands at.
RECURSIVE sweepRun(_, _, _)
sweepRun(v, loc, n) ==
    LET cur == Link(v, loc)
    IN  IF n = 0 \/ cur = NULL \/ cur = WILD THEN [vm |-> v, loc |-> loc]
        ELSE IF ~v.mem[cur].marked
        THEN sweepRun([SetLink(v, loc, v.mem[cur].next) EXCEPT
                          !.numObjects = @ - 1,
                          !.allocated = @ \ {cur},
                          !.mem[cur] = Freed], loc, n - 1)
        ELSE sweepRun([v EXCEPT !.mem[cur].marked = FALSE], cur, n - 1)

\* sweep, from the link loc on, a stretch of Burst passes after another, until
\* "while (*object)" finds NULL, or a wild pointer.
RECURSIVE sweepAt(_, _)
sweepAt(v, loc) ==
    LET c == sweepRun(v, loc, Burst)
        cur == Link(c.vm, c.loc)
    IN  IF cur = NULL THEN {c.vm}
        ELSE IF cur = WILD THEN WildSweep(c.vm, c.loc)
        ELSE sweepAt(c.vm, c.loc)

sweep(v) == sweepAt(v, NULL)

\* --------------------------------------------------------------------- gc
\* History of a cycle: the roots, heap and counters it started from, the
\* objects then reachable, and the heap and count sweep left.
Seen(v, s) ==
    [ran |-> TRUE, done |-> s.status = "running", explicit |-> FALSE, repeat |-> FALSE,
     roots |-> v.stack, heap0 |-> HeapSet(v), reach0 |-> Reach(v),
     num0 |-> v.numObjects, max0 |-> v.maxObjects,
     heap1 |-> HeapSet(s), num1 |-> s.numObjects, max1 |-> s.maxObjects,
     marks1 |-> {o \in HeapSet(s) : s.mem[o].marked}]

\* A mark bit written through a dangling pointer lands in memory the allocator
\* owns, and does not outlive the cycle.
Reclaim(s) ==
    [s EXCEPT !.mem = [a \in DOMAIN s.mem |-> IF a \in s.allocated THEN s.mem[a] ELSE Freed]]

\* Mutant of gc: the threshold is set to numObjects, not twice it.
gcNoDouble(v) ==
    LET ends == (IF MarkReadsFreed(v) THEN {Crash(v)} ELSE {}) \cup sweep(markAll(v))
        fin(s) == IF s.status = "running"
                  THEN Reclaim([s EXCEPT !.maxObjects = s.numObjects])
                  ELSE s
    IN  { [fin(s) EXCEPT !.cycle = Seen(v, fin(s))] : s \in ends }

\* gc / collect: markAll; sweep; maxObjects = numObjects * 2.  Each outcome is
\* a VM; a cycle that reads freed memory may fault or go on with what is there.
gc(v) ==
    LET ends == (IF MarkReadsFreed(v) THEN {Crash(v)} ELSE {}) \cup sweep(markAll(v))
        fin(s) == IF s.status = "running"
                  THEN Reclaim([s EXCEPT !.maxObjects = s.numObjects * 2])
                  ELSE s
    IN  { [fin(s) EXCEPT !.cycle = Seen(v, fin(s))] : s \in ends }

\* The C++ names of the same code.
markSpine(v) == markAll(v)
collect(v) == gc(v)

\* ------------------------------------------------------------- allocation
Running(S) == {s \in S : s.status = "running"}
Stopped(S) == {s \in S : s.status # "running"}

\* malloc(sizeof(Object)) / new Object: the allocator is first-fit, it returns
\* the lowest address not in use.  HasRoom bounds the pool.
HasRoom(v) == DOMAIN v.mem \ v.allocated # {}
malloc(v) ==
    CHOOSE a \in DOMAIN v.mem \ v.allocated : \A b \in DOMAIN v.mem \ v.allocated : a <= b

\* newObject (C): if (numObjects == maxObjects) gc(); then malloc an object,
\* clear its mark, set its type, link it at the head of the list and count it.
\* Each outcome is the VM and the object returned (NULL when the cycle faulted).
newObject(v, t) ==
    LET pre == IF v.numObjects = v.maxObjects THEN gc(v) ELSE {v}
    IN  { [vm |-> s, obj |-> NULL] : s \in Stopped(pre) } \cup
        { LET a == malloc(s)
          IN  [vm |-> [s EXCEPT !.allocated = @ \cup {a},
                                !.mem[a].marked = FALSE,
                                !.mem[a].type = t,
                                !.mem[a].next = s.root,
                                !.root = a,
                                !.numObjects = @ + 1],
               obj |-> a] : s \in {x \in Running(pre) : HasRoom(x)} }

\* new Object(...) (C++): the constructors set marked(0) and the value; next
\* keeps whatever the memory held.
New(v, a, t, val, h, tl) ==
    [v EXCEPT !.allocated = @ \cup {a},
              !.mem[a] = [Object(t, val, h, tl) EXCEPT !.next = v.mem[a].next]]

\* Mutant of insert: the collection is triggered one object early.
insertEarly(v, o) ==
    LET pre == IF v.numObjects + 1 >= v.maxObjects THEN collect(v) ELSE {v}
    IN  Stopped(pre) \cup
        { [s EXCEPT !.mem[o].marked = FALSE,
                    !.mem[o].next = s.root,
                    !.root = o,
                    !.numObjects = @ + 1] : s \in Running(pre) }

\* Mutant of insert: the object is linked and counted first, and the collection
\* runs with it on the list.
insertThenCollect(v, o) ==
    LET s0 == [v EXCEPT !.mem[o].marked = FALSE,
                        !.mem[o].next = v.root,
                        !.root = o,
                        !.numObjects = @ + 1]
    IN  IF v.numObjects >= v.maxObjects THEN collect(s0) ELSE {s0}

\* insert (C++): if (numObjects >= maxObjects) collect(); then clear the mark of
\* the object already constructed at o, link it at the head and count it.
insert(v, o) ==
    LET pre == IF v.numObjects >= v.maxObjects THEN collect(v) ELSE {v}
    IN  Stopped(pre) \cup
        { [s EXCEPT !.mem[o].marked = FALSE,
                    !.mem[o].next = s.root,
                    !.root = o,
                    !.numObjects = @ + 1] : s \in Running(pre) }

\* ------------------------------------------------------------- operations
\* pushInt (C): newObject, then object->value = value, then push.
pushInt(v, val) ==
    { IF r.vm.status = "running"
      THEN Result(push([r.vm EXCEPT !.mem[r.obj].value = val,
                                    !.mem[r.obj].head = NULL,
                                    !.mem[r.obj].tail = NULL], r.obj), r.obj)
      ELSE r.vm : r \in newObject(v, "INT") }

\* pushPair (C): newObject first, then head = pop(), tail = pop(), then push.
pushPair(v) ==
    { IF r.vm.status # "running" THEN r.vm
      ELSE LET s0 == [r.vm EXCEPT !.mem[r.obj].value = 0]
               s1 == pop(s0)
           IN  IF s1.status # "running" THEN s1
               ELSE LET s2 == pop([s1 EXCEPT !.mem[r.obj].head = Top(s0)])
                    IN  IF s2.status # "running" THEN s2
                        ELSE Result(push([s2 EXCEPT !.mem[r.obj].tail = Top(s1)], r.obj),
                                    r.obj)
      : r \in newObject(v, "PAIR") }

\* VM::push(int) (C++): _push(insert(new Object(v))).
push_int(v, val) ==
    LET a == malloc(v)
    IN  { IF s.status = "running" THEN Result(push(s, a), a) ELSE s :
            s \in insert(New(v, a, "INT", val, NULL, NULL), a) }

\* VM::push() (C++): _push(insert(new Object(pop(), pop()))).  The two pops are
\* the constructor's arguments, evaluated in either order: headFirst tells
\* whether the first pop supplies head.  Both pops precede insert.
push_pair(v, headFirst) ==
    LET s1 == pop(v)
        s2 == pop(s1)
        x == Top(v)
        y == Top(s1)
        h == IF headFirst THEN x ELSE y
        tl == IF headFirst THEN y ELSE x
    IN  IF s1.status # "running" THEN {s1}
        ELSE IF s2.status # "running" THEN {s2}
        ELSE LET a == malloc(s2)
             IN  { IF s.status = "running" THEN Result(push(s, a), a) ELSE s :
                     s \in insert(New(s2, a, "PAIR", 0, h, tl), a) }

\* a->tail = b / tail_setter(a->value, b): the tests' direct write of a pair's tail.
tail_setter(v, a, b) == [v EXCEPT !.mem[a].tail = b]

\* freeVM (C): stackSize = 0; gc(vm); free(vm).
freeVM(v) ==
    { IF s.status = "running" THEN [s EXCEPT !.status = "freed"] ELSE s :
        s \in gc([v EXCEPT !.stack = <<>>]) }

\* A VM leaving scope (C++): class VM declares no destructor, so nothing runs.
leaveScope(v) == [v EXCEPT !.status = "destroyed"]

\* ---------------------------------------------------------- specification
\* newVM (C) sets stackSize, numObjects and maxObjects and leaves root as malloc
\* returned it: NULL or not.  VM::VM (C++) also sets root(NULL).  What a root
\* that is not NULL leads to is explored on the small pool.
Init ==
    /\ impl \in Impls
    /\ status = "running"
    /\ \E P \in Pools : mem = [a \in P |-> Freed]
    /\ allocated = {}
    /\ stack = <<>>
    /\ root \in (IF impl = "c" /\ DOMAIN mem = Addr THEN {NULL, WILD} ELSE {NULL})
    /\ numObjects = 0
    /\ maxObjects = MAX_BARRIER
    /\ ret = NULL
    /\ cycle = NoCycle
    /\ lastOp = [op |-> "newVM"]
    /\ left = None
    /\ phase = "idle"
    /\ idx = 0
    /\ frames = <<>>
    /\ writes = [a \in Addr |-> 0]
    /\ test = NoTest

Live == status = "running"

\* The caller.  On the small pool it may do anything at any time.  On the large
\* one it pushes Ints, and does anything else only at the two ends of the root
\* stack: no root (for a pair: fewer than two), or MAX_STACK of them.
Small == DOMAIN mem = Addr
AtEnds == Len(stack) = 0 \/ Len(stack) = MAX_STACK

PushIntC ==
    /\ Live /\ impl = "c"
    /\ \E val \in Values : \E s \in pushInt(Cur, val) : Install(s, "pushInt")

PushPairC ==
    /\ Live /\ impl = "c" /\ (Small \/ AtEnds \/ Len(stack) = 1)
    /\ \E s \in pushPair(Cur) : Install(s, "pushPair")

PushIntCpp ==
    /\ Live /\ impl = "cpp" /\ HasRoom(Cur)
    /\ \E val \in Values : \E s \in push_int(Cur, val) : Install(s, "pushInt")

PushPairCpp ==
    /\ Live /\ impl = "cpp" /\ (Small \/ AtEnds \/ Len(stack) = 1)
    /\ (Len(stack) >= 2 => HasRoom(Cur))
    /\ \E headFirst \in BOOLEAN : \E s \in push_pair(Cur, headFirst) : Install(s, "pushPair")

Pop ==
    /\ Live /\ (Small \/ AtEnds)
    /\ Install(pop(Cur), "pop")

Collect ==
    /\ Live /\ (Small \/ AtEnds)
    /\ \E s \in gc(Cur) :
         Install([s EXCEPT !.cycle.explicit = TRUE,
                           !.cycle.repeat = cycle.ran /\ cycle.explicit /\ cycle.done],
                 "collect")

SetTail ==
    /\ Live /\ Small
    /\ \E a \in HeapSet(Cur), b \in HeapSet(Cur) :
         /\ mem[a].type = "PAIR"
         /\ Install(tail_setter(Cur, a, b), "setTail")

FreeVM ==
    /\ Live /\ impl = "c" /\ (Small \/ AtEnds)
    /\ \E s \in freeVM(Cur) : Install(s, "teardown")

LeaveScope ==
    /\ Live /\ impl = "cpp" /\ (Small \/ AtEnds)
    /\ Install(leaveScope(Cur), "teardown")

Next ==
    \/ PushIntC
    \/ PushPairC
    \/ PushIntCpp
    \/ PushPairCpp
    \/ Pop
    \/ Collect
    \/ SetTail
    \/ FreeVM
    \/ LeaveScope

Spec == Init /\ [][Next]_vars

\* ------------------------------------------------- a cycle, step by step
\* MarkSpec runs one collection cycle over an arbitrary object graph, with mark
\* executed call by call.  A frame is a call of mark on object o; its pc is
\* "enter" (at the test of o->marked), "head" (mark(head) has been called) or
\* "tail" (mark(tail) has been called).
MarkObjs == 2        \* the graphs of MarkSpec have objects 1..MarkObjs

Objs == 1..MarkObjs
Shapes == {Object("INT", 1, NULL, NULL)} \cup
          {Object("PAIR", 0, h, tl) : h \in Objs, tl \in Objs}
\* The objects as newObject / insert links them: each new one at the head.
Linked(g) == [a \in Addr |-> IF a \in Objs THEN [g[a] EXCEPT !.next = a - 1] ELSE Freed]
RootSeqs == [{1} -> Objs] \cup [{1, 2} -> Objs]

MarkInit ==
    /\ impl \in Impls
    /\ status = "running"
    /\ \E g \in [Objs -> Shapes] : mem = Linked(g)
    /\ allocated = Objs
    /\ stack \in RootSeqs
    /\ root = MarkObjs
    /\ numObjects = MarkObjs
    /\ maxObjects = MAX_BARRIER
    /\ ret = NULL
    /\ cycle = NoCycle
    /\ lastOp = [op |-> "newVM"]
    /\ left = None
    /\ phase = "mark"
    /\ idx = 0
    /\ frames = <<>>
    /\ writes = [a \in Addr |-> 0]
    /\ test = NoTest

vmVars == <<impl, status, allocated, stack, root, numObjects, maxObjects,
            ret, cycle, lastOp, left, test>>

Frame(o) == [o |-> o, pc |-> "enter"]

\* Mutant of AlreadyMarked: the test of the mark bit never succeeds.
NeverMarked(o) == FALSE

\* mark: if (object->marked)
AlreadyMarked(o) == mem[o].marked
TopFrame == frames[Len(frames)]
Return == SubSeq(frames, 1, Len(frames) - 1)
Call(pc, o) == Append([frames EXCEPT ![Len(frames)].pc = pc], Frame(o))

\* markAll / markSpine: for (i = 0; i < stackSize; i++) mark(stack[i]).
MarkRoot ==
    /\ phase = "mark" /\ frames = <<>> /\ idx < Len(stack)
    /\ frames' = <<Frame(stack[idx + 1])>>
    /\ idx' = idx + 1
    /\ UNCHANGED <<vmVars, mem, phase, writes>>

\* markAll's loop ends.
MarkAllReturn ==
    /\ phase = "mark" /\ frames = <<>> /\ idx >= Len(stack)
    /\ phase' = "sweep"
    /\ UNCHANGED <<vmVars, mem, idx, frames, writes>>

\* mark: if (object->marked) return;
MarkSeen ==
    /\ phase = "mark" /\ frames # <<>> /\ TopFrame.pc = "enter"
    /\ AlreadyMarked(TopFrame.o)
    /\ frames' = Return
    /\ UNCHANGED <<vmVars, mem, phase, idx, writes>>

\* mark: object->marked = 1; then, for a pair, mark(object->head); else return.
MarkSet ==
    /\ phase = "mark" /\ frames # <<>> /\ TopFrame.pc = "enter"
    /\ ~AlreadyMarked(TopFrame.o)
    /\ mem' = [mem EXCEPT ![TopFrame.o].marked = TRUE]
    /\ writes' = [writes EXCEPT ![TopFrame.o] = @ + 1]
    /\ frames' = IF mem[TopFrame.o].type = "PAIR"
                 THEN Call("head", mem[TopFrame.o].head)
                 ELSE Return
    /\ UNCHANGED <<vmVars, phase, idx>>

\* mark: mark(object->head) has returned; mark(object->tail).
MarkTail ==
    /\ phase = "mark" /\ frames # <<>> /\ TopFrame.pc = "head"
    /\ frames' = Call("tail", mem[TopFrame.o].tail)
    /\ UNCHANGED <<vmVars, mem, phase, idx, writes>>

\* mark: mark(object->tail) has returned; return.
MarkReturn ==
    /\ phase = "mark" /\ frames # <<>> /\ TopFrame.pc = "tail"
    /\ frames' = Return
    /\ UNCHANGED <<vmVars, mem, phase, idx, writes>>

\* gc / collect after markAll: sweep(); maxObjects = numObjects * 2.
SweepAndGrow ==
    /\ phase = "sweep"
    /\ \E s \in sweep(Cur) :
         /\ mem' = s.mem
         /\ allocated' = s.allocated
         /\ root' = s.root
         /\ numObjects' = s.numObjects
         /\ maxObjects' = s.numObjects * 2
    /\ phase' = "done"
    /\ UNCHANGED <<impl, status, stack, ret, cycle, lastOp, left, idx, frames, writes, test>>

MarkNext ==
    \/ MarkRoot
    \/ MarkAllReturn
    \/ MarkSeen
    \/ MarkSet
    \/ MarkTail
    \/ MarkReturn
    \/ SweepAndGrow

\* The program is sequential: a step that can be taken is taken.
MarkSpec == MarkInit /\ [][MarkNext]_vars /\ WF_vars(MarkNext)

\* ------------------------------------------------- the tests of the source
\* TestSpec runs test1 .. test4 of both sources, command by command, on a VM
\* just created.  A command is an operation of the VM, a write of a pair's tail
\* through one of the test's locals a and b, or the test's assert on numObjects.
TestObjs == 7        \* the most objects a test allocates (test3)
TestAddr == 1..TestObjs

PushI(n) == [op |-> "pushInt", n |-> n, x |-> "", y |-> ""]
PushP(x) == [op |-> "pushPair", n |-> 0, x |-> x, y |-> ""]
PopR == [op |-> "pop", n |-> 0, x |-> "", y |-> ""]
Gc == [op |-> "collect", n |-> 0, x |-> "", y |-> ""]
SetT(x, y) == [op |-> "setTail", n |-> 0, x |-> x, y |-> y]
Expect(n) == [op |-> "assert", n |-> n, x |-> "", y |-> ""]
Free == [op |-> "teardown", n |-> 0, x |-> "", y |-> ""]

test1 == <<PushI(1), PushI(2), Gc, Expect(2), Free>>
test2 == <<PushI(1), PushI(2), PopR, PopR, Gc, Expect(0), Free>>
test3 == <<PushI(1), PushI(2), PushP(""), PushI(3), PushI(4), PushP(""), PushP(""),
           Gc, Expect(7), Free>>
test4 == <<PushI(1), PushI(2), PushP("a"), PushI(3), PushI(4), PushP("b"),
           SetT("a", "b"), SetT("b", "a"), Gc, Expect(4), Free>>

Tests == {[name |-> "test1", todo |-> test1, a |-> NULL, b |-> NULL],
          [name |-> "test2", todo |-> test2, a |-> NULL, b |-> NULL],
          [name |-> "test3", todo |-> test3, a |-> NULL, b |-> NULL],
          [name |-> "test4", todo |-> test4, a |-> NULL, b |-> NULL]}

TestInit ==
    /\ impl \in Impls
    /\ status = "running"
    /\ mem = [a \in TestAddr |-> Freed]
    /\ allocated = {}
    /\ stack = <<>>
    /\ root \in (IF impl = "c" THEN {NULL, WILD} ELSE {NULL})
    /\ numObjects = 0
    /\ maxObjects = MAX_BARRIER
    /\ ret = NULL
    /\ cycle = NoCycle
    /\ lastOp = [op |-> "newVM"]
    /\ left = None
    /\ phase = "idle"
    /\ idx = 0
    /\ frames = <<>>
    /\ writes = [a \in Addr |-> 0]
    /\ test \in Tests

\* The command the test is at, and the test after it.
At(op) == Live /\ test.todo # <<>> /\ Head(test.todo).op = op
Cmd == Head(test.todo)
Done == [test EXCEPT !.todo = Tail(@)]
Local(x) == IF x = "a" THEN test.a ELSE test.b

\* pushInt(vm, n); / vm.push(n);
TestPushInt ==
    /\ At("pushInt")
    /\ \E s \in (IF impl = "c" THEN pushInt(Cur, Cmd.n) ELSE push_int(Cur, Cmd.n)) :
         Put(s, "pushInt")
    /\ test' = Done

\* pushPair(vm); / vm.push(); and Object* a = ..., Object* b = ...
TestPushPair ==
    /\ At("pushPair")
    /\ \E s \in (IF impl = "c" THEN pushPair(Cur)
                  ELSE UNION {push_pair(Cur, headFirst) : headFirst \in BOOLEAN}) :
         /\ Put(s, "pushPair")
         /\ test' = [Done EXCEPT !.a = IF Cmd.x = "a" THEN s.ret ELSE @,
                                 !.b = IF Cmd.x = "b" THEN s.ret ELSE @]

\* pop(vm); / vm.pop();
TestPop ==
    /\ At("pop")
    /\ Put(pop(Cur), "pop")
    /\ test' = Done

\* gc(vm); / vm.collect();
TestCollect ==
    /\ At("collect")
    /\ \E s \in gc(Cur) : Put([s EXCEPT !.cycle.explicit = TRUE], "collect")
    /\ test' = Done

\* a->tail = b; / tail_setter(a->value, b);
TestSetTail ==
    /\ At("setTail")
    /\ Put(tail_setter(Cur, Local(Cmd.x), Local(Cmd.y)), "setTail")
    /\ test' = Done

\* assert(vm->numObjects == n, ...) / my_assert(vm.numObjects == n, ...)
TestAssert ==
    /\ At("assert")
    /\ Put(IF numObjects = Cmd.n THEN Cur ELSE Exit(Cur), "assert")
    /\ test' = Done

\* freeVM(vm); / the end of the test function, where vm leaves scope.
TestTeardown ==
    /\ At("teardown")
    /\ \E s \in (IF impl = "c" THEN freeVM(Cur) ELSE {leaveScope(Cur)}) : Put(s, "teardown")
    /\ test' = Done

TestNext ==
    \/ TestPushInt
    \/ TestPushPair
    \/ TestPop
    \/ TestCollect
    \/ TestSetTail
    \/ TestAssert
    \/ TestTeardown

TestSpec == TestInit /\ [][TestNext]_vars

\* ================================================================= claims
Heap == HeapSet(Cur)
CycleDone == cycle.ran /\ cycle.done
IsAlloc == lastOp.op \in {"pushInt", "pushPair"}
\* The allocation of the last operation was reached: VM::push() of the C++
\* code pops before it allocates, and stops there on underflow.
Allocated == IsAlloc /\ ~(impl = "cpp" /\ lastOp.op = "pushPair" /\ status = "exited")

\* C1: Reachability preservation.  No object that was in the heap and reachable
\* from the root stack when a collection cycle started (explicit, triggered by
\* an allocation, or the one of teardown) has been removed from the heap by it:
\* it is in the heap the sweep left, and still there and allocated afterwards.
C1_ReachablePreserved ==
    cycle.ran =>
        /\ (cycle.reach0 \cap cycle.heap0) \subseteq cycle.heap1
        /\ (cycle.reach0 \cap cycle.heap0) \subseteq (Heap \cap allocated)

\* A completed cycle that freed something and kept an object that is reachable
\* only through a pair (not itself a root).
C1_Witness ==
    /\ CycleDone
    /\ cycle.heap0 \ cycle.heap1 # {}
    /\ (cycle.reach0 \cap cycle.heap0) \ Range(cycle.roots) # {}

\* C2: Garbage reclamation.  When a collection cycle completes, the heap is
\* exactly the set of objects that were reachable from the root stack when it
\* started, and numObjects is the size of that set.
C2_ExactReclamation ==
    CycleDone =>
        /\ cycle.heap1 = cycle.reach0 \cap cycle.heap0
        /\ cycle.num1 = Cardinality(cycle.reach0 \cap cycle.heap0)

\* C3: No dangling references.  Every pair reachable from the root stack has a
\* head and a tail that are objects currently in the heap.
C3_NoDangling ==
    status = "running" =>
        \A o \in Reach(Cur) :
            mem[o].type = "PAIR" => mem[o].head \in Heap /\ mem[o].tail \in Heap

\* C4: Cycle safety / termination.  Over any object graph (cyclic, shared,
\* self-referencing) and any roots, every cycle reaches its end: markAll
\* returns and sweep and the threshold update follow; and no object's mark bit
\* is set more than once in the cycle.
C4_MarkTerminates ==
    /\ <>(phase = "done")
    /\ [](\A o \in Addr : writes[o] <= 1)

\* A finished cycle over a graph in which a pair reaches itself through another
\* pair, and in which some object was reached a second time.
C4_Witness ==
    /\ phase = "done"
    /\ \E a \in Heap, b \in Heap :
         /\ a # b
         /\ mem[a].type = "PAIR" /\ mem[b].type = "PAIR"
         /\ b \in Succ(mem, a) /\ a \in Succ(mem, b)
    /\ \E o \in Addr : writes[o] = 1

\* C5: Mark bits are clear outside a collection.  In every state that is not a
\* fault in the middle of a cycle, every object in the heap is unmarked, and
\* a completed cycle left no survivor marked.
C5_MarksClear ==
    /\ status # "crashed" => \A o \in Heap : ~mem[o].marked
    /\ CycleDone => cycle.marks1 = {}

\* A completed cycle with a survivor.
C5_Witness == CycleDone /\ cycle.heap1 # {} /\ cycle.heap0 \ cycle.heap1 # {}

\* C6: Idempotence of collect.  A collect() that directly follows a completed
\* collect() leaves the heap, numObjects and maxObjects as it found them.
C6_CollectIdempotent ==
    (CycleDone /\ cycle.repeat) =>
        /\ cycle.heap1 = cycle.heap0
        /\ cycle.num1 = cycle.num0
        /\ cycle.max1 = cycle.max0

\* C7: Allocation trigger.  Every allocation that starts with
\* numObjects >= maxObjects runs a collection cycle before it links the object.
C7_TriggerAtOrAbove ==
    (Allocated /\ lastOp.num >= lastOp.max) => cycle.ran

\* C8: No early trigger.  An allocation runs a collection only if it starts
\* with numObjects at or above maxObjects, and maxObjects is then MAX_BARRIER
\* (no cycle completed yet) or twice what the last completed cycle left.
C8_NoEarlyTrigger ==
    (IsAlloc /\ cycle.ran) =>
        /\ lastOp.num >= lastOp.max
        /\ lastOp.max = (IF lastOp.left = None THEN MAX_BARRIER ELSE 2 * lastOp.left)

\* An allocation that triggered a cycle, after an earlier cycle left objects.
C8_Witness == IsAlloc /\ CycleDone /\ lastOp.left # None /\ lastOp.left > 0

\* C9: Growth policy.  Right after every completed cycle, maxObjects is twice
\* numObjects as the sweep left it.
C9_ThresholdDoubles ==
    CycleDone => cycle.max1 = 2 * cycle.num1

\* Cycles, one explicit and one in an allocation, that moved the threshold.
C9_Witness == CycleDone /\ cycle.num1 > 0 /\ cycle.max1 # cycle.max0

\* C10: Teardown releases everything.  After teardown no object is allocated
\* and numObjects is 0.
C10_TeardownFreesAll ==
    status \in {"freed", "destroyed"} => allocated = {} /\ numObjects = 0

\* C11: Frame of pop.  A pop on a non-empty root stack returns the entry that
\* was on top (the last one pushed that is still there), leaves the entries
\* below it as they were, one fewer, and changes nothing else: no object's
\* fields, no heap link, neither counter; it frees nothing, runs no cycle and
\* does not stop the program.
C11_PopFrame ==
    [][(lastOp'.op = "pop" /\ Len(stack) > 0) =>
          /\ ret' = stack[Len(stack)]
          /\ Len(stack') = Len(stack) - 1
          /\ \A i \in 1..Len(stack') : stack'[i] = stack[i]
          /\ mem' = mem
          /\ allocated' = allocated
          /\ root' = root
          /\ numObjects' = numObjects
          /\ maxObjects' = maxObjects
          /\ ~cycle'.ran
          /\ status' = "running"]_vars

\* A pop that left a root below and returned an object that stays in the heap
\* though no root holds it any more.
C11_Witness ==
    /\ lastOp.op = "pop" /\ status = "running"
    /\ Len(stack) >= 1
    /\ ret \in Heap /\ ret \notin Range(stack)
    /\ stack[Len(stack)] # ret

\* C12: Underflow and overflow fail fast.  A pop on an empty root stack, a
\* pushPair on fewer than two roots and a pushInt on MAX_STACK roots each end
\* in the exit of a failed assert; no operation executes after an exit; and in
\* a state left by an exit the root stack has at most MAX_STACK entries, none
\* outside stack[0 .. MAX_STACK-1], and numObjects is the number of objects on
\* the heap list.
C12_FailFast ==
    /\ [][/\ status # "exited"
          /\ (lastOp'.op = "pop" /\ Len(stack) = 0) => status' = "exited"
          /\ (lastOp'.op = "pushPair" /\ Len(stack) < 2) => status' = "exited"
          /\ (lastOp'.op = "pushInt" /\ Len(stack) = MAX_STACK) => status' = "exited"]_vars
    /\ [](status = "exited" =>
            /\ DOMAIN stack \subseteq 1..MAX_STACK
            /\ numObjects = Cardinality(Heap))

\* C13: Heap accounting.  In every state outside a collection cycle the list
\* that starts at root ends at NULL without passing an object twice, its
\* objects are exactly the allocated ones, and numObjects is their number; and
\* a VM just created has root NULL, numObjects 0, an empty root stack and
\* maxObjects MAX_BARRIER.
C13_HeapAccounting ==
    /\ status # "crashed" =>
          /\ ListEnd(mem, root, {}) = NULL
          /\ Heap = allocated
          /\ numObjects = Cardinality(Heap)
    /\ lastOp.op = "newVM" =>
          /\ root = NULL
          /\ numObjects = 0
          /\ stack = <<>>
          /\ maxObjects = MAX_BARRIER

\* C14: The new object survives its own allocation.  When pushInt or pushPair
\* has returned, the object it returned is allocated and on the heap list, it
\* is the top entry of the root stack, and numObjects is one more than the
\* collection this allocation triggered left it, or than it was if none ran.
C14_NewObjectSurvives ==
    (IsAlloc /\ status = "running") =>
        /\ ret \in allocated /\ ret \in Heap
        /\ Len(stack) > 0 /\ stack[Len(stack)] = ret
        /\ numObjects = (IF cycle.ran THEN cycle.num1 ELSE lastOp.num) + 1

\* An allocation that returned after the collection it triggered freed objects.
C14_Witness ==
    /\ IsAlloc /\ status = "running" /\ CycleDone
    /\ cycle.heap0 \ cycle.heap1 # {}
    /\ ret \in Heap

\* C15: The cycle scenario.  In test4 (push 1, push 2, a = pushPair, push 3,
\* push 4, b = pushPair, a.tail := b, b.tail := a, collect) the collection
\* leaves numObjects 4, it frees the Ints holding 2 and 4 and no other object:
\* the pairs a and b and the Ints holding 1 and 3 are what is on the heap.
Test4Collected ==
    /\ test.name = "test4" /\ test.todo = <<Expect(4), Free>>
    /\ status = "running"
C15_CycleScenario ==
    Test4Collected =>
        /\ numObjects = 4
        /\ test.a \in Heap /\ test.b \in Heap
        /\ {mem[o].value : o \in {h \in Heap : mem[h].type = "INT"}} = {1, 3}
        /\ Cardinality(Heap) = 4

\* C16: Bounded garbage.  Outside a collection cycle numObjects is at most
\* max(maxObjects, 1): the heap never grows past the current threshold, apart
\* from the one object allocated while the threshold is 0.
Max(a, b) == IF a >= b THEN a ELSE b
C16_BoundedGarbage == status = "running" => numObjects <= Max(maxObjects, 1)

\* C17: Frame of collect.  A collection cycle that completes leaves the root
\* stack as it was (contents and count), leaves the type, value, head and tail
\* of every object that stays on the heap as they were, and adds no object to
\* the heap; no cycle, explicit or triggered by an allocation, ends with an
\* object on the heap that was not there when it started, or with a higher
\* numObjects.
Payload(o) == [type |-> o.type, value |-> o.value, head |-> o.head, tail |-> o.tail]
C17_CollectFrame ==
    /\ [][(lastOp'.op = "collect" /\ status' = "running") =>
              /\ stack' = stack
              /\ allocated' \subseteq allocated
              /\ \A o \in allocated' : Payload(mem'[o]) = Payload(mem[o])
              /\ cycle'.heap1 \subseteq allocated'
              /\ impl' = impl]_vars
    /\ [](CycleDone => /\ cycle.heap1 \subseteq cycle.heap0
                       /\ cycle.num1 <= cycle.num0)

\* An explicit cycle that freed an object and kept a pair a root holds.
C17_Witness ==
    /\ lastOp.op = "collect" /\ CycleDone /\ status = "running"
    /\ cycle.heap0 \ cycle.heap1 # {}
    /\ stack # <<>> /\ stack = cycle.roots
    /\ \E o \in Range(stack) : o \in Heap /\ mem[o].type = "PAIR" /\ mem[o].tail \in Heap

\* C18: Root stack bounds.  In every running state the root stack holds at
\* most MAX_STACK (256) references and each of them is to an object on the
\* heap list; a pushPair on a stack of k >= 2 roots that returns leaves k - 1
\* roots, the first k - 2 of them as they were.
C18_RootStackBounds ==
    /\ [](status = "running" =>
              /\ Len(stack) >= 0 /\ Len(stack) <= MAX_STACK
              /\ Range(stack) \subseteq Heap)
    /\ [][(lastOp'.op = "pushPair" /\ Len(stack) >= 2 /\ status' = "running") =>
              /\ Len(stack') = Len(stack) - 1
              /\ \A i \in 1..(Len(stack) - 2) : stack'[i] = stack[i]]_vars

\* A pushPair on the full root stack: MAX_STACK - 1 roots, the pair on top.
C18_Witness ==
    /\ lastOp.op = "pushPair" /\ status = "running"
    /\ Len(stack) = MAX_STACK - 1
    /\ stack[Len(stack)] = ret /\ mem[ret].type = "PAIR"
    /\ Range(stack) \subseteq Heap

====
